---- MODULE Spec2Model ----
(***************************************************************************)
(* Fault-injection / recovery controller of the PetClinic crash tooling:   *)
(*   petclinic_crash_generation/crash_generator.py  (CrashGenerator)       *)
(*   petclinic_crash_generation/crash_reverter.py   (CrashReverter)        *)
(* Each operator command is one OS process; pc is its position, mem its    *)
(* in-memory self.state, stateFile the persisted Session State.            *)
(***************************************************************************)
EXTENDS Integers, Sequences, FiniteSets, TLC

\* ------------------------------------------------------------------ bounds
MaxInjects == 2
MaxCmds == 3

\* --------------------------------------------------------------- constants
Mode644 == 420

\* ------------------------------------------------------------------- paths
jar_path == "base_dir/target/spring-petclinic-3.5.0-SNAPSHOT.jar"
service_file == "/etc/systemd/system/petclinic.service"
props_file == "base_dir/src/main/resources/application.properties"
large_file == "/tmp/crash_generator_large_file"
moved_path == "backup_dir/moved_jar.jar"

\* f"{self.backup_dir}/{os.path.basename(file_path)}"
BackupPath(p) ==
  CASE p = jar_path -> "backup_dir/spring-petclinic-3.5.0-SNAPSHOT.jar"
    [] p = service_file -> "backup_dir/petclinic.service"
    [] p = props_file -> "backup_dir/application.properties"
    [] p = large_file -> "backup_dir/crash_generator_large_file"
    [] OTHER -> "backup_dir/moved_jar.jar"

TargetPaths == {jar_path, service_file, props_file}
Paths == {jar_path, service_file, props_file, large_file, moved_path}
BackupPaths == {BackupPath(p) : p \in TargetPaths \cup {large_file}}
AllPaths == Paths \cup BackupPaths

\* ------------------------------------------------------------------- files
Absent == [kind |-> "absent"]
File(c, m) == [kind |-> "file", c |-> c, m |-> m]
Exists(f, p) == f[p].kind = "file"

\* shutil.copy2: content and permission bits of src replace dst
Copy2(f, src, dst) == [f EXCEPT ![dst] = f[src]]
\* shutil.move: dst takes the file, src disappears
Move(f, src, dst) == [f EXCEPT ![dst] = f[src], ![src] = Absent]
\* open(p, 'w') + write: an existing file keeps its mode, a new one gets 644
WriteFile(f, p, c) ==
  [f EXCEPT ![p] = IF Exists(f, p) THEN File(c, f[p].m) ELSE File(c, Mode644)]
\* open(p, 'a') + write
AppendFile(f, p, c) ==
  [f EXCEPT ![p] = IF Exists(f, p) THEN File(f[p].c \o c, f[p].m)
                                  ELSE File(c, Mode644)]
Remove(f, p) == [f EXCEPT ![p] = Absent]
Chmod(f, p, m) == [f EXCEPT ![p] = File(f[p].c, m)]

\* ------------------------------------------------ permission string codec
\* a codec that takes the three digits in the wrong order
OctLast3_Reversed(stmode) == << stmode % 8, (stmode \div 8) % 8, (stmode \div 64) % 8 >>
\* oct(st_mode)[-3:] : the last three octal digits of st_mode, as a string
OctLast3(stmode) == << (stmode \div 64) % 8, (stmode \div 8) % 8, stmode % 8 >>
\* int(permissions, 8)
IntOct(s) == s[1] * 64 + s[2] * 8 + s[3]
\* st_mode of a regular file: S_IFREG | permission bits
StMode(m) == 32768 + m

\* ---------------------------------------------------- configuration text
NL == "NL"
Marker == "# Invalid configuration added by crash generator"
InvalidPrefixes == {"server.port=invalid", "spring.datasource.url=jdbc:invalid",
                    "spring.datasource.username=", "spring.datasource.password=",
                    "logging.level.root=INVALID"}
invalid_config ==
  << NL, Marker, NL, "server.port=invalid", NL,
     "spring.datasource.url=jdbc:invalid", NL,
     "spring.datasource.username=", NL,
     "spring.datasource.password=", NL,
     "logging.level.root=INVALID", NL >>

\* ------------------------------------------------------ service definition
OrigUnit == [exec |-> "java -jar", user |-> "ubuntu"]
\* content.replace('ExecStart=/usr/bin/java -jar', '... -Xmx32m -Xms16m -jar')
ReplaceExec(u) ==
  IF u.exec = "java -jar" THEN [u EXCEPT !.exec = "java -Xmx32m -Xms16m -jar"] ELSE u
\* content.replace('User=ubuntu', 'User=nobody')
ReplaceUser(u) ==
  IF u.user = "ubuntu" THEN [u EXCEPT !.user = "nobody"] ELSE u

\* ----------------------------------------------------------- ledger codec
\* f"moved:{jar_path}:{moved_path}"
MovedEntry(from, to) == <<"moved", ":", from, ":", to>>
PlainEntry(p) == <<p>>
\* file_entry.startswith("moved:")
StartsWithMoved(e) == Len(e) >= 2 /\ e[1] = "moved" /\ e[2] = ":"
\* file_entry.split(":", 2) -> (_, original_path, moved_path)
SplitOriginal(e) == e[3]
SplitMoved(e) == e[5]

rules ==
  << <<"-A OUTPUT", "dport 80 DROP">>,
     <<"-A OUTPUT", "dport 443 DROP">>,
     <<"-A OUTPUT", "dport 53 DROP">> >>
\* rule.replace("-A OUTPUT", "-D OUTPUT")
DeleteRule(r) == << IF r[1] = "-A OUTPUT" THEN "-D OUTPUT" ELSE r[1], r[2] >>

\* ----------------------------------------------------------- Session State
DefaultState ==
  [ active_scenario |-> 0,
    timestamp |-> 0,
    backup_created |-> FALSE,
    processes_started |-> <<>>,
    files_modified |-> <<>>,
    original_permissions |-> <<>>,   \* dict, as (path, perm) pairs in insertion order
    iptables_rules |-> <<>>,
    service_modified |-> FALSE ]

NoFile == [kind |-> "absent"]
Truncated == [kind |-> "truncated"]
Saved(st) == [kind |-> "json", st |-> st]

\* CrashGenerator.load_state: self.state.update(json.load(f)), errors swallowed
GenLoad(sf) == IF sf.kind = "json" THEN sf.st ELSE DefaultState
\* CrashReverter.load_state: self.state = json.load(f), {} otherwise;
\* every later read is self.state.get(key, default)
RevLoad(sf) == IF sf.kind = "json" THEN sf.st ELSE DefaultState
RevLoadedEmpty(sf) == sf.kind # "json"

VARIABLES
  pc,          \* position of the running command's process, "idle" when none
  cmd,         \* the running command: [op, id]
  mem,         \* self.state of the running process
  stateFile,   \* /tmp/crash_generator_state.json
  fs,          \* files: path -> Absent | File(content, mode)
  procs,       \* pids of live nc listeners on port 8080
  httpThread,  \* the daemon HTTP-server thread of the running generator
  fw,          \* iptables OUTPUT chain, in order
  svc,         \* petclinic.service: "active" | "inactive" | "failed"
  nextPid,     \* next pid the OS hands out
  clock,       \* number of injections begun (source of timestamps)
  ret,         \* return value the running command has computed so far
  verdict,     \* last verdict of verify_service_health
  result,      \* outcome of the last finished command
  steps,       \* steps issued by the running / last command, in order
  ncmds,       \* number of commands begun
  pre,         \* the state file when the running / last command began
  hist,        \* the latest commands that ran to their return, newest last
  sess,        \* the session: whether one is open, the files at its start
  other        \* a second controller process, while the scheduler has it wait

vars == << pc, cmd, mem, stateFile, fs, procs, httpThread, fw, svc, nextPid,
           clock, ret, verdict, result, steps, ncmds, pre, hist, sess, other >>

\* ---------------------------------------------------------------- helpers
RECURSIVE DictSet(_, _, _)
\* d[k] = v on an insertion-ordered dict
DictSet(d, k, v) ==
  IF d = <<>> THEN << <<k, v>> >>
  ELSE IF Head(d)[1] = k THEN << <<k, v>> >> \o Tail(d)
  ELSE << Head(d) >> \o DictSet(Tail(d), k, v)

Range(s) == { s[i] : i \in 1..Len(s) }

RECURSIVE RemoveFirst(_, _)
\* iptables -D: delete the first rule of the chain that matches
RemoveFirst(chain, spec) ==
  IF chain = <<>> THEN <<>>
  ELSE IF Head(chain) = spec THEN Tail(chain)
  ELSE << Head(chain) >> \o RemoveFirst(Tail(chain), spec)

\* --------------------------------------------- target service (systemd unit)
HasInvalidConfig(c) == \E i \in 1..Len(c) : c[i] \in InvalidPrefixes
OwnerExec(m) == (m \div 64) % 2 = 1
DropRules == { rules[i][2] : i \in 1..Len(rules) }

\* what `systemctl start petclinic.service` needs for the unit to stay up
CanRun(f, chain, listeners, thread) ==
  /\ Exists(f, service_file)
  /\ f[service_file].c = OrigUnit
  /\ Exists(f, jar_path)
  /\ OwnerExec(f[jar_path].m)
  /\ Exists(f, props_file) => ~HasInvalidConfig(f[props_file].c)
  /\ Range(chain) \cap DropRules = {}
  /\ listeners = {}
  /\ ~thread
  /\ ~Exists(f, large_file)

\* start_service: sudo systemctl start petclinic.service
StartService(f, chain, listeners, thread) ==
  IF CanRun(f, chain, listeners, thread) THEN "active" ELSE "failed"

\* ------------------------------------------------------------------- Init
\* the targets before the first command: the jar's mode (0o755, 0o700) and
\* the configuration file, which may be missing
InitEnvs ==
  { [jar_mode |-> 493, props |-> File(<<"k=v", NL>>, Mode644)],
    [jar_mode |-> 448, props |-> Absent] }

NoCmd == [op |-> "none", id |-> 0, fresh |-> FALSE]

\* what belongs to one controller process: its position, its command, its
\* self.state, its locals and its server thread
NoProcess ==
  [ pc |-> "idle", cmd |-> NoCmd, mem |-> DefaultState, ret |-> FALSE,
    verdict |-> FALSE, steps |-> <<>>, httpThread |-> FALSE, pre |-> NoFile ]

\* no session is open or recorded and the target service is up
Pristine ==
  /\ stateFile = NoFile
  /\ ~sess.open
  /\ procs = {}
  /\ svc = "active"

Init ==
  /\ pc = "idle"
  /\ cmd = NoCmd
  /\ mem = DefaultState
  /\ stateFile = NoFile
  /\ \E env \in InitEnvs :
       fs = [p \in AllPaths |->
               CASE p = jar_path -> File("JAR", env.jar_mode)
                 [] p = service_file -> File(OrigUnit, Mode644)
                 [] p = props_file -> env.props
                 [] OTHER -> Absent]
  /\ procs = {}
  /\ httpThread = FALSE
  /\ fw = <<>>
  /\ svc = "active"
  /\ nextPid = 1
  /\ clock = 0
  /\ ret = FALSE
  /\ verdict = FALSE
  /\ result = "none"
  /\ steps = <<>>
  /\ ncmds = 0
  /\ pre = stateFile
  /\ hist = <<>>
  /\ sess = [open |-> FALSE, fs |-> fs]
  /\ other = NoProcess

\* a new command process starts
Begin(op, id) ==
  /\ pc = "idle"
  /\ ncmds < MaxCmds
  /\ ncmds' = ncmds + 1
  /\ cmd' = [op |-> op, id |-> id, fresh |-> Pristine]
  /\ pre' = stateFile
  /\ sess' = IF op = "inject" /\ ~sess.open THEN [open |-> TRUE, fs |-> fs] ELSE sess
  /\ UNCHANGED << hist, other >>
  /\ steps' = <<>>
  /\ result' = "running"
  /\ ret' = FALSE

\* the command process exits
Finish(r) ==
  /\ pc' = "idle"
  /\ result' = r
  /\ mem' = DefaultState
  /\ httpThread' = FALSE
  /\ sess' = IF cmd.op = "full" /\ r = "True" THEN [sess EXCEPT !.open = FALSE] ELSE sess
  /\ cmd' = NoCmd
  /\ steps' = <<>>
  /\ ret' = FALSE
  /\ verdict' = FALSE
  /\ hist' = IF cmd.op \in {"inject", "full"} /\ r \in {"True", "False"}
               THEN (IF hist = <<>> THEN <<>> ELSE << hist[Len(hist)] >>)
                    \o << [op |-> cmd.op, id |-> cmd.id, fresh |-> cmd.fresh,
                           result |-> r] >>
               ELSE <<>>

Step(label) == steps' = Append(steps, label)

\* what a step that does not end the command leaves alone
Cont == UNCHANGED << cmd, result, hist, ncmds, pre, sess, nextPid, clock, other >>
\* what a step that ends the command leaves alone
Last == UNCHANGED << ncmds, pre, nextPid, clock, other >>

\* ============================================================ CrashGenerator
\* a run_scenario that goes straight to stop_service, without create_backup
Inject_SkipsBackup(id) ==
  /\ clock < MaxInjects
  /\ Begin("inject", id)
  /\ mem' = GenLoad(stateFile)
  /\ clock' = clock + 1
  /\ pc' = "g_stop"
  /\ UNCHANGED << stateFile, fs, procs, httpThread, fw, svc, nextPid, verdict >>

\* main + __init__ + load_state: `crash_generator.py <id>`
Inject(id) ==
  /\ clock < MaxInjects
  /\ Begin("inject", id)
  /\ mem' = GenLoad(stateFile)
  /\ clock' = clock + 1
  /\ pc' = "g_backup"
  /\ UNCHANGED << stateFile, fs, procs, httpThread, fw, svc, nextPid, verdict >>

BackupOne(f, p) == IF Exists(f, p) THEN Copy2(f, p, BackupPath(p)) ELSE f

\* a create_backup that copies the files whatever backup_created says
CreateBackup_AlwaysCopies ==
  /\ pc = "g_backup"
  /\ fs' = BackupOne(BackupOne(BackupOne(fs, jar_path), service_file), props_file)
  /\ mem' = [mem EXCEPT !.backup_created = TRUE]
  /\ Step("backup")
  /\ pc' = "g_bk_open"
  /\ Cont
  /\ UNCHANGED << stateFile, procs, httpThread, fw, svc, ret, verdict >>

\* create_backup, up to the call of save_state
CreateBackup ==
  /\ pc = "g_backup"
  /\ IF mem.backup_created
       THEN /\ pc' = "g_stop"
            /\ UNCHANGED << fs, mem, steps >>
       ELSE /\ fs' = BackupOne(BackupOne(BackupOne(fs, jar_path), service_file), props_file)
            /\ mem' = [mem EXCEPT !.backup_created = TRUE]
            /\ Step("backup")
            /\ pc' = "g_bk_open"
  /\ Cont
  /\ UNCHANGED << stateFile, procs, httpThread, fw, svc, ret, verdict >>

\* save_state: open(self.state_file, "w") truncates the file ...
SaveOpen ==
  /\ pc \in {"g_bk_open", "g_save_open"}
  /\ stateFile' = Truncated
  /\ pc' = IF pc = "g_bk_open" THEN "g_bk_dump" ELSE "g_save_dump"
  /\ Cont
  /\ UNCHANGED << mem, fs, procs, httpThread, fw, svc, ret, verdict, steps >>

\* ... and json.dump writes the record (end of create_backup)
BackupSaveDump ==
  /\ pc = "g_bk_dump"
  /\ stateFile' = Saved(mem)
  /\ pc' = "g_stop"
  /\ Cont
  /\ UNCHANGED << mem, fs, procs, httpThread, fw, svc, ret, verdict, steps >>

\* run_scenario: stop_service, then active_scenario / timestamp
GenStop ==
  /\ pc = "g_stop"
  /\ svc' = "inactive"
  /\ mem' = [mem EXCEPT !.active_scenario = cmd.id, !.timestamp = clock]
  /\ Step("stop")
  /\ pc' = "g_scen"
  /\ Cont
  /\ UNCHANGED << stateFile, fs, procs, httpThread, fw, ret, verdict >>

\* scenario_1_port_conflict up to start_service.  The server thread and nc
\* race for port 8080: one of them binds it, the other gets EADDRINUSE; both
\* fail when a listener is already there.  Popen raises when nc is missing;
\* run_scenario then returns False without save_state.
Scenario1 ==
  /\ pc = "g_scen" /\ cmd.id = 1
  /\ \E popenRaises \in BOOLEAN, winner \in {"thread", "nc"} :
       LET free == procs = {}
       IN  IF popenRaises
             THEN /\ Finish("False")
                  /\ Last
                  /\ UNCHANGED procs
             ELSE /\ httpThread' = (free /\ winner = "thread")
                  /\ procs' = IF free /\ winner = "nc" THEN procs \cup {nextPid} ELSE procs
                  /\ mem' = [mem EXCEPT !.processes_started = Append(@, <<"nc", nextPid>>)]
                  /\ nextPid' = nextPid + 1
                  /\ Step("mutate")
                  /\ pc' = "g_start"
                  /\ UNCHANGED << cmd, result, hist, ncmds, pre, sess, clock, ret,
                                  verdict, other >>
  /\ UNCHANGED << stateFile, fs, fw, svc >>

\* a scenario that returns False before mutating anything (target file absent)
Skip ==
  /\ ret' = FALSE
  /\ Step("skip")
  /\ pc' = "g_save_open"
  /\ UNCHANGED << mem, fs >>

\* scenario_2_permission_error up to start_service
Scenario2 ==
  /\ pc = "g_scen" /\ cmd.id = 2
  /\ IF ~Exists(fs, jar_path)
       THEN Skip
       ELSE /\ mem' = [mem EXCEPT
                 !.original_permissions =
                     DictSet(@, jar_path, OctLast3(StMode(fs[jar_path].m))),
                 !.files_modified = Append(@, PlainEntry(jar_path))]
            /\ fs' = Chmod(fs, jar_path, Mode644)
            /\ Step("mutate")
            /\ pc' = "g_start"
            /\ UNCHANGED ret
  /\ Cont
  /\ UNCHANGED << stateFile, procs, httpThread, fw, svc, verdict >>

\* scenario_3_missing_file up to start_service
Scenario3 ==
  /\ pc = "g_scen" /\ cmd.id = 3
  /\ IF ~Exists(fs, jar_path)
       THEN Skip
       ELSE /\ fs' = Move(fs, jar_path, moved_path)
            /\ mem' = [mem EXCEPT
                 !.files_modified = Append(@, MovedEntry(jar_path, moved_path))]
            /\ Step("mutate")
            /\ pc' = "g_start"
            /\ UNCHANGED ret
  /\ Cont
  /\ UNCHANGED << stateFile, procs, httpThread, fw, svc, verdict >>

\* scenario_4_memory_limit / scenario_7_user_permission up to start_service
Scenario47 ==
  /\ pc = "g_scen" /\ cmd.id \in {4, 7}
  /\ IF ~Exists(fs, service_file)
       THEN Skip
       ELSE /\ fs' = WriteFile(fs, service_file,
                       IF cmd.id = 4 THEN ReplaceExec(fs[service_file].c)
                                     ELSE ReplaceUser(fs[service_file].c))
            /\ mem' = [mem EXCEPT
                 !.service_modified = TRUE,
                 !.files_modified = Append(@, PlainEntry(service_file))]
            /\ Step("mutate")
            /\ pc' = "g_start"
            /\ UNCHANGED ret
  /\ Cont
  /\ UNCHANGED << stateFile, procs, httpThread, fw, svc, verdict >>

\* scenario_5_invalid_config up to start_service
Scenario5 ==
  /\ pc = "g_scen" /\ cmd.id = 5
  /\ fs' = AppendFile(fs, props_file, invalid_config)
  /\ mem' = [mem EXCEPT !.files_modified = Append(@, PlainEntry(props_file))]
  /\ Step("mutate")
  /\ pc' = "g_start"
  /\ Cont
  /\ UNCHANGED << stateFile, procs, httpThread, fw, svc, ret, verdict >>

RuleIndex == CASE pc = "g_scen" -> 1 [] pc = "g_rule2" -> 2 [] OTHER -> 3

\* a scenario 6 that records a rule whether or not iptables accepted it
Scenario6Rule_RecordsFailedRule ==
  /\ \/ pc = "g_scen" /\ cmd.id = 6
     \/ pc \in {"g_rule2", "g_rule3"}
  /\ \E success \in BOOLEAN :
       /\ fw' = IF success THEN Append(fw, rules[RuleIndex][2]) ELSE fw
       /\ mem' = [mem EXCEPT !.iptables_rules = Append(@, rules[RuleIndex])]
       /\ Step("mutate")
  /\ pc' = CASE pc = "g_scen" -> "g_rule2" [] pc = "g_rule2" -> "g_rule3"
             [] OTHER -> "g_start"
  /\ Cont
  /\ UNCHANGED << stateFile, fs, procs, httpThread, svc, ret, verdict >>

\* scenario_6_network_issues: one iteration of `for rule in rules`
Scenario6Rule ==
  /\ \/ pc = "g_scen" /\ cmd.id = 6
     \/ pc \in {"g_rule2", "g_rule3"}
  /\ \E success \in BOOLEAN :
       IF success
         THEN /\ fw' = Append(fw, rules[RuleIndex][2])
              /\ mem' = [mem EXCEPT !.iptables_rules = Append(@, rules[RuleIndex])]
              /\ Step("mutate")
         ELSE UNCHANGED << fw, mem, steps >>
  /\ pc' = CASE pc = "g_scen" -> "g_rule2" [] pc = "g_rule2" -> "g_rule3"
             [] OTHER -> "g_start"
  /\ Cont
  /\ UNCHANGED << stateFile, fs, procs, httpThread, svc, ret, verdict >>

\* scenario_8_disk_space up to start_service; a failing write (MemoryError,
\* ENOSPC) is caught by the scenario, which returns False
Scenario8 ==
  /\ pc = "g_scen" /\ cmd.id = 8
  /\ \E writeRaises \in BOOLEAN :
       IF writeRaises
         THEN /\ fs' = [fs EXCEPT ![large_file] = File("partial", Mode644)]
              /\ ret' = FALSE
              /\ Step("mutate")
              /\ pc' = "g_save_open"
              /\ UNCHANGED mem
         ELSE /\ fs' = [fs EXCEPT ![large_file] = File("filler", Mode644)]
              /\ mem' = [mem EXCEPT !.files_modified = Append(@, PlainEntry(large_file))]
              /\ Step("mutate")
              /\ pc' = "g_start"
              /\ UNCHANGED ret
  /\ Cont
  /\ UNCHANGED << stateFile, procs, httpThread, fw, svc, verdict >>

\* the scenario's closing start_service and `return True`; an OSError out of
\* it (log file, fork) reaches run_scenario's except, which returns False
GenStart ==
  /\ pc = "g_start"
  /\ \E raises \in BOOLEAN :
       IF raises
         THEN /\ Finish("False")
              /\ Last
              /\ UNCHANGED svc
         ELSE /\ svc' = StartService(fs, fw, procs, httpThread)
              /\ ret' = TRUE
              /\ Step("start")
              /\ pc' = "g_save_open"
              /\ Cont
              /\ UNCHANGED << mem, httpThread, verdict >>
  /\ UNCHANGED << stateFile, fs, procs, fw >>

\* run_scenario: end of save_state, `return result`, process exit
GenSaveDump ==
  /\ pc = "g_save_dump"
  /\ stateFile' = Saved(mem)
  /\ Finish(IF ret THEN "True" ELSE "False")
  /\ Last
  /\ UNCHANGED << fs, procs, fw, svc >>

\* main of crash_generator.py: `success` only selects the log line, there is
\* no sys.exit; the process ends with status 0 whenever run_scenario returned
GenExitCode(r) == IF r \in {"True", "False"} THEN 0 ELSE 1

\* the controller process stops where it is (SIGKILL, Ctrl-C, power loss)
Crash ==
  /\ pc # "idle"
  /\ Finish("crashed")
  /\ Last
  /\ UNCHANGED << stateFile, fs, procs, fw, svc >>

\* ============================================================= CrashReverter
\* kill_processes: SIGTERM / SIGKILL to every recorded pid ...
KillRecorded(listeners, started) ==
  listeners \ { started[i][2] : i \in 1..Len(started) }
RECURSIVE KillSignals(_, _)
\* kill_processes, the loop: the os.kill calls it issues, in order.  SIGTERM
\* to a dead pid raises ProcessLookupError, which skips that entry's SIGKILL;
\* nc ends on SIGTERM, so the SIGKILL that follows finds it gone
KillSignals(listeners, started) ==
  IF started = <<>> THEN <<>>
  ELSE LET pid == Head(started)[2] IN
       (IF pid \in listeners
          THEN << [sig |-> "SIGTERM", pid |-> pid], [sig |-> "SIGKILL", pid |-> pid] >>
          ELSE << [sig |-> "SIGTERM", pid |-> pid] >>)
       \o KillSignals(listeners \ {pid}, Tail(started))

\* a kill_processes without the sweep of port 8080
SweepPort_NoSweep(listeners) == listeners
\* ... then `lsof -ti:8080 | kill -9` and `pkill -f 'nc -l 8080'`
SweepPort(listeners) == listeners \ listeners
KillProcesses(listeners, st) == SweepPort(KillRecorded(listeners, st.processes_started))

RECURSIVE DeleteRules(_, _)
DeleteRules(chain, recorded) ==
  IF recorded = <<>> THEN chain
  ELSE DeleteRules(
         IF DeleteRule(Head(recorded))[1] = "-D OUTPUT"
           THEN RemoveFirst(chain, DeleteRule(Head(recorded))[2]) ELSE chain,
         Tail(recorded))
\* remove_iptables_rules: -D per recorded rule, then `iptables -F OUTPUT`
FlushOutput(chain) == SubSeq(chain, 1, 0)
RemoveIptablesRules(chain, st) == FlushOutput(DeleteRules(chain, st.iptables_rules))

\* restore_service_file; `raises` is shutil.copy2 failing (uncaught)
RestoreServiceFile(f, st, raises) ==
  IF ~st.service_modified THEN [fs |-> f, raised |-> FALSE]
  ELSE IF Exists(f, BackupPath(service_file))
    THEN IF raises THEN [fs |-> f, raised |-> TRUE]
         ELSE [fs |-> Copy2(f, BackupPath(service_file), service_file), raised |-> FALSE]
  ELSE [fs |-> f, raised |-> FALSE]

\* f.readlines(): the text cut after every newline
RECURSIVE ReadLines(_, _)
ReadLines(c, cur) ==
  IF c = <<>> THEN (IF cur = <<>> THEN <<>> ELSE << cur >>)
  ELSE IF Head(c) = NL THEN << Append(cur, NL) >> \o ReadLines(Tail(c), <<>>)
  ELSE ReadLines(Tail(c), Append(cur, Head(c)))

CommentTokens == {Marker, "# comment"}
HasMarker(line) == Marker \in Range(line)
IsBlank(line) == \A i \in 1..Len(line) : line[i] = NL
StartsHash(line) == Head(line) \in CommentTokens
StartsInvalid(line) == Head(line) \in InvalidPrefixes

RECURSIVE CleanLines(_, _)
\* the loop of clean_application_properties; the result is the kept text
CleanLines(lines, skip_section) ==
  IF lines = <<>> THEN <<>>
  ELSE LET line == Head(lines) IN
    IF HasMarker(line) THEN CleanLines(Tail(lines), TRUE)
    ELSE IF skip_section /\ (IsBlank(line) \/ StartsHash(line))
      THEN CleanLines(Tail(lines), skip_section)
    ELSE IF skip_section /\ ~StartsInvalid(line)
      THEN line \o CleanLines(Tail(lines), FALSE)
    ELSE IF ~skip_section THEN line \o CleanLines(Tail(lines), skip_section)
    ELSE CleanLines(Tail(lines), skip_section)

clean_application_properties(f, p) ==
  IF ~Exists(f, p) THEN f
  ELSE WriteFile(f, p, CleanLines(ReadLines(f[p].c, <<>>), FALSE))

\* a restore_files that copies a moved file back and leaves the moved copy
RestoreEntry_CopiesMoved(f, e, raises) ==
  IF StartsWithMoved(e)
    THEN IF Exists(f, SplitMoved(e))
           THEN IF raises THEN [fs |-> f, raised |-> TRUE]
                ELSE [fs |-> Copy2(f, SplitMoved(e), SplitOriginal(e)), raised |-> FALSE]
           ELSE [fs |-> f, raised |-> FALSE]
    ELSE LET file_path == e[1] IN
         IF Exists(f, BackupPath(file_path))
           THEN IF raises THEN [fs |-> f, raised |-> TRUE]
                ELSE [fs |-> Copy2(f, BackupPath(file_path), file_path), raised |-> FALSE]
         ELSE IF file_path = props_file
           THEN [fs |-> clean_application_properties(f, file_path), raised |-> FALSE]
         ELSE IF file_path = large_file /\ Exists(f, file_path)
           THEN [fs |-> Remove(f, file_path), raised |-> FALSE]
         ELSE [fs |-> f, raised |-> FALSE]

\* a restore_files that fails on a moved file that is no longer there
RestoreEntry_RaisesOnMissing(f, e, raises) ==
  IF StartsWithMoved(e)
    THEN IF Exists(f, SplitMoved(e))
           THEN IF raises THEN [fs |-> f, raised |-> TRUE]
                ELSE [fs |-> Move(f, SplitMoved(e), SplitOriginal(e)), raised |-> FALSE]
           ELSE [fs |-> f, raised |-> TRUE]
    ELSE LET file_path == e[1] IN
         IF Exists(f, BackupPath(file_path))
           THEN IF raises THEN [fs |-> f, raised |-> TRUE]
                ELSE [fs |-> Copy2(f, BackupPath(file_path), file_path), raised |-> FALSE]
         ELSE IF file_path = props_file
           THEN [fs |-> clean_application_properties(f, file_path), raised |-> FALSE]
         ELSE IF file_path = large_file /\ Exists(f, file_path)
           THEN [fs |-> Remove(f, file_path), raised |-> FALSE]
         ELSE [fs |-> f, raised |-> FALSE]

\* one iteration of the loop of restore_files; `raises`: the copy / move fails
RestoreEntry(f, e, raises) ==
  IF StartsWithMoved(e)
    THEN IF Exists(f, SplitMoved(e))
           THEN IF raises THEN [fs |-> f, raised |-> TRUE]
                ELSE [fs |-> Move(f, SplitMoved(e), SplitOriginal(e)), raised |-> FALSE]
           ELSE [fs |-> f, raised |-> FALSE]
    ELSE LET file_path == e[1] IN
         IF Exists(f, BackupPath(file_path))
           THEN IF raises THEN [fs |-> f, raised |-> TRUE]
                ELSE [fs |-> Copy2(f, BackupPath(file_path), file_path), raised |-> FALSE]
         ELSE IF file_path = props_file
           THEN [fs |-> clean_application_properties(f, file_path), raised |-> FALSE]
         ELSE IF file_path = large_file /\ Exists(f, file_path)
           THEN [fs |-> Remove(f, file_path), raised |-> FALSE]
         ELSE [fs |-> f, raised |-> FALSE]

RECURSIVE RestoreLoop(_, _, _, _)
\* restore_files from entry i on; the I/O of entry failAt fails (0: none does)
RestoreLoop(f, entries, i, failAt) ==
  IF i > Len(entries) THEN [fs |-> f, raised |-> FALSE]
  ELSE LET r == RestoreEntry(f, entries[i], i = failAt) IN
       IF r.raised THEN r ELSE RestoreLoop(r.fs, entries, i + 1, failAt)

\* a restore_files that acts only when a file scenario is the active one
RestoreFiles_ActiveScenarioOnly(f, st, failAt) ==
  IF st.active_scenario \in {2, 3, 4, 5, 7, 8}
    THEN RestoreLoop(f, st.files_modified, 1, failAt)
    ELSE [fs |-> f, raised |-> FALSE]
RestoreFiles(f, st, failAt) == RestoreLoop(f, st.files_modified, 1, failAt)

RECURSIVE RestorePermissions(_, _)
\* restore_permissions: chmod per recorded path, each in its own try/except
RestorePermissions(f, perms) ==
  IF perms = <<>> THEN f
  ELSE RestorePermissions(
         IF Exists(f, Head(perms)[1])
           THEN Chmod(f, Head(perms)[1], IntOct(Head(perms)[2])) ELSE f,
         Tail(perms))

\* cleanup_temp_files
CleanupTempFiles(f) == IF Exists(f, large_file) THEN Remove(f, large_file) ELSE f

\* a verifier that lets every service pass
VerifyServiceHealth_NoChecks(s, listeners) == TRUE

\* verify_service_health: the three probes, in order, first failure returns
CheckActive(s) == s = "active"
CheckListening(s, listeners) == s = "active" \/ listeners # {}
CheckHttp(s) == s = "active"
VerifyServiceHealth(s, listeners) ==
  IF ~CheckActive(s) THEN FALSE
  ELSE IF ~CheckListening(s, listeners) THEN FALSE
  ELSE CheckHttp(s)

\* clear_state
ClearState(sf) == IF sf.kind # "absent" THEN NoFile ELSE sf

\* a full_revert that forgets to stop the service first
FullRevert_NoStop ==
  /\ Begin("full", 0)
  /\ mem' = RevLoad(stateFile)
  /\ pc' = "r_kill"
  /\ UNCHANGED << stateFile, fs, procs, httpThread, fw, svc, nextPid, clock,
                  verdict >>

\* main + __init__ + load_state: `crash_reverter.py --full`
FullRevert ==
  /\ Begin("full", 0)
  /\ mem' = RevLoad(stateFile)
  /\ pc' = "r_stop"
  /\ UNCHANGED << stateFile, fs, procs, httpThread, fw, svc, nextPid, clock,
                  verdict >>

\* full_revert: self.stop_service()
RevStop ==
  /\ pc = "r_stop"
  /\ svc' = "inactive"
  /\ Step("stop")
  /\ pc' = "r_kill"
  /\ Cont
  /\ UNCHANGED << mem, stateFile, fs, procs, httpThread, fw, ret, verdict >>

\* full_revert: self.kill_processes()
RevKill ==
  /\ pc = "r_kill"
  /\ procs' = KillProcesses(procs, mem)
  /\ Step("kill")
  /\ pc' = "r_ipt"
  /\ Cont
  /\ UNCHANGED << mem, stateFile, fs, httpThread, fw, svc, ret, verdict >>

\* full_revert: self.remove_iptables_rules()
RevIptables ==
  /\ pc = "r_ipt"
  /\ fw' = RemoveIptablesRules(fw, mem)
  /\ Step("iptables")
  /\ pc' = "r_service"
  /\ Cont
  /\ UNCHANGED << mem, stateFile, fs, procs, httpThread, svc, ret, verdict >>

\* full_revert: self.restore_service_file(); an exception ends the process
RevService ==
  /\ pc = "r_service"
  /\ \E raises \in BOOLEAN :
       LET r == RestoreServiceFile(fs, mem, raises) IN
       /\ raises => r.raised
       /\ fs' = r.fs
       /\ IF r.raised
            THEN Finish("exception") /\ Last
            ELSE /\ pc' = "r_files"
                 /\ Step("service")
                 /\ Cont
                 /\ UNCHANGED << mem, httpThread, ret, verdict >>
  /\ UNCHANGED << stateFile, procs, fw, svc >>

\* full_revert: self.restore_files(); an exception ends the process
RevFiles ==
  /\ pc = "r_files"
  /\ \E failAt \in 0..Len(mem.files_modified) :
       LET r == RestoreFiles(fs, mem, failAt) IN
       /\ (failAt # 0) => r.raised
       /\ fs' = r.fs
       /\ IF r.raised
            THEN Finish("exception") /\ Last
            ELSE /\ pc' = "r_perms"
                 /\ Step("files")
                 /\ Cont
                 /\ UNCHANGED << mem, httpThread, ret, verdict >>
  /\ UNCHANGED << stateFile, procs, fw, svc >>

\* full_revert: self.restore_permissions()
RevPerms ==
  /\ pc = "r_perms"
  /\ fs' = RestorePermissions(fs, mem.original_permissions)
  /\ Step("permissions")
  /\ pc' = "r_cleanup"
  /\ Cont
  /\ UNCHANGED << mem, stateFile, procs, httpThread, fw, svc, ret, verdict >>

\* full_revert: self.cleanup_temp_files()
RevCleanup ==
  /\ pc = "r_cleanup"
  /\ fs' = CleanupTempFiles(fs)
  /\ Step("cleanup")
  /\ pc' = "r_start"
  /\ Cont
  /\ UNCHANGED << mem, stateFile, procs, httpThread, fw, svc, ret, verdict >>

\* full_revert: self.start_service()
RevStart ==
  /\ pc = "r_start"
  /\ svc' = StartService(fs, fw, procs, httpThread)
  /\ Step("start")
  /\ pc' = "r_health"
  /\ Cont
  /\ UNCHANGED << mem, stateFile, fs, procs, httpThread, fw, ret, verdict >>

\* a full_revert that clears the state whatever the verdict is
RevHealth_ClearsOnFailure ==
  /\ pc = "r_health"
  /\ IF VerifyServiceHealth(svc, procs)
       THEN /\ verdict' = TRUE
            /\ pc' = "r_clear"
            /\ Step("health")
            /\ Cont
            /\ UNCHANGED << mem, httpThread, ret, stateFile >>
       ELSE /\ Finish("False") /\ Last
            /\ stateFile' = ClearState(stateFile)
  /\ UNCHANGED << fs, procs, fw, svc >>

\* full_revert: if self.verify_service_health(): ... else: return False
RevHealth ==
  /\ pc = "r_health"
  /\ IF VerifyServiceHealth(svc, procs)
       THEN /\ verdict' = TRUE
            /\ pc' = "r_clear"
            /\ Step("health")
            /\ Cont
            /\ UNCHANGED << mem, httpThread, ret >>
       ELSE Finish("False") /\ Last
  /\ UNCHANGED << stateFile, fs, procs, fw, svc >>

\* a clear_state that removes the file without looking whether it exists
RevClear_NoExistsCheck ==
  /\ pc = "r_clear"
  /\ stateFile' = ClearState(stateFile)
  /\ Finish(IF stateFile.kind = "absent" THEN "exception" ELSE "True")
  /\ Last
  /\ UNCHANGED << fs, procs, fw, svc >>

\* full_revert: self.clear_state(); return True
RevClear ==
  /\ pc = "r_clear"
  /\ stateFile' = ClearState(stateFile)
  /\ Finish("True")
  /\ Last
  /\ UNCHANGED << fs, procs, fw, svc >>

Flags == {"kill-processes", "restore-files", "restore-permissions",
          "remove-iptables", "restore-service", "cleanup-temp",
          "verify-health", "clear-state"}

\* an individual operation that also deletes the state file after restoring
StateAfterFlag_RestoreClears(flag, sf) ==
  IF flag \in {"clear-state", "restore-files"} THEN ClearState(sf) ELSE sf

\* main: of the individual operations only --clear-state calls clear_state
StateAfterFlag(flag, sf) == IF flag = "clear-state" THEN ClearState(sf) ELSE sf

\* main, `crash_reverter.py --<flag>`: one individual operation
Granular(flag) ==
  /\ pc = "idle"
  /\ ncmds < MaxCmds
  /\ ncmds' = ncmds + 1
  /\ pre' = stateFile
  /\ LET st == RevLoad(stateFile) IN
     \E failAt \in 0..Len(st.files_modified) :
       LET rf == RestoreFiles(fs, st, failAt)
           rs == RestoreServiceFile(fs, st, failAt # 0)
           raised == \/ flag = "restore-files" /\ rf.raised
                     \/ flag = "restore-service" /\ rs.raised
       IN
       /\ (failAt # 0) => raised
       /\ procs' = IF flag = "kill-processes" THEN KillProcesses(procs, st) ELSE procs
       /\ fw' = IF flag = "remove-iptables" THEN RemoveIptablesRules(fw, st) ELSE fw
       /\ fs' = CASE flag = "restore-files" -> rf.fs
                  [] flag = "restore-service" -> rs.fs
                  [] flag = "restore-permissions" ->
                       RestorePermissions(fs, st.original_permissions)
                  [] flag = "cleanup-temp" -> CleanupTempFiles(fs)
                  [] OTHER -> fs
       /\ stateFile' = StateAfterFlag(flag, stateFile)
       /\ result' = CASE raised -> "Traceback"
                      [] flag = "verify-health" ->
                           (IF VerifyServiceHealth(svc, procs)
                              THEN "Service health check passed"
                              ELSE "Service health check failed")
                      [] flag = "clear-state" -> "State cleared"
                      [] OTHER -> "done"
  /\ hist' = <<>>
  /\ UNCHANGED << pc, cmd, mem, httpThread, svc, nextPid, clock, ret, verdict,
                  steps, sess, other >>

Next ==
  \/ \E id \in 1..8 : Inject(id)
  \/ CreateBackup
  \/ SaveOpen
  \/ BackupSaveDump
  \/ GenStop
  \/ Scenario1
  \/ Scenario2
  \/ Scenario3
  \/ Scenario47
  \/ Scenario5
  \/ Scenario6Rule
  \/ Scenario8
  \/ GenStart
  \/ GenSaveDump
  \/ Crash
  \/ FullRevert
  \/ RevStop
  \/ RevKill
  \/ RevIptables
  \/ RevService
  \/ RevFiles
  \/ RevPerms
  \/ RevCleanup
  \/ RevStart
  \/ RevHealth
  \/ RevClear
  \/ \E flag \in Flags : Granular(flag)

Spec == Init /\ [][Next]_vars

TypeOK ==
  /\ pc \in {"idle", "g_backup", "g_bk_open", "g_bk_dump", "g_stop", "g_scen",
             "g_rule2", "g_rule3", "g_start", "g_save_open", "g_save_dump",
             "r_stop", "r_kill", "r_ipt", "r_service", "r_files", "r_perms",
             "r_cleanup", "r_start", "r_health", "r_clear",
             "r_h_active", "r_h_port", "r_h_http"}
  /\ stateFile.kind \in {"absent", "truncated", "json"}
  /\ svc \in {"active", "inactive", "failed"}
  /\ clock \in 0..MaxInjects

\* ===================================================== status and probes
\* A second specification follows the Health Verifier probe by probe, runs
\* the --status commands, and starts with a rule of the administrator in
\* the OUTPUT chain; it injects the scenarios that act on port, configuration
\* and firewall.
PreRule == "sport 22 ACCEPT"
DetailScenarios == {1, 5, 6}

InitDetail ==
  /\ pc = "idle"
  /\ cmd = NoCmd
  /\ mem = DefaultState
  /\ stateFile = NoFile
  /\ \E env \in InitEnvs :
       fs = [p \in AllPaths |->
               CASE p = jar_path -> File("JAR", env.jar_mode)
                 [] p = service_file -> File(OrigUnit, Mode644)
                 [] p = props_file -> env.props
                 [] OTHER -> Absent]
  /\ procs = {}
  /\ httpThread = FALSE
  /\ fw = << PreRule >>
  /\ svc = "active"
  /\ nextPid = 1
  /\ clock = 0
  /\ ret = FALSE
  /\ verdict = FALSE
  /\ result = "none"
  /\ steps = <<>>
  /\ ncmds = 0
  /\ pre = stateFile
  /\ hist = <<>>
  /\ sess = [open |-> FALSE, fs |-> fs]
  /\ other = NoProcess

\* main of crash_generator.py, --status: json.load of the state file when it
\* exists, outside any try
GenStatusOutput(sf) ==
  CASE sf.kind = "absent" -> "No active scenarios"
    [] sf.kind = "json" -> "Current state"
    [] OTHER -> "JSONDecodeError"

\* `crash_generator.py --status`
GenStatus ==
  /\ pc = "idle"
  /\ ncmds < MaxCmds
  /\ ncmds' = ncmds + 1
  /\ pre' = stateFile
  /\ result' = GenStatusOutput(stateFile)
  /\ hist' = <<>>
  /\ UNCHANGED << pc, cmd, mem, stateFile, fs, procs, httpThread, fw, svc,
                  nextPid, clock, ret, verdict, steps, sess, other >>

\* CrashReverter.show_status: `if not self.state` -> no active scenarios
ShowStatus(sf) ==
  IF RevLoadedEmpty(sf) THEN [active |-> FALSE]
  ELSE [active |-> TRUE, state |-> sf.st]

\* `crash_reverter.py --status`
RevStatus ==
  /\ pc = "idle"
  /\ ncmds < MaxCmds
  /\ ncmds' = ncmds + 1
  /\ pre' = stateFile
  /\ result' = IF ShowStatus(stateFile).active
                 THEN "Current Crash Generator State"
                 ELSE "No crash scenarios are currently active"
  /\ hist' = <<>>
  /\ UNCHANGED << pc, cmd, mem, stateFile, fs, procs, httpThread, fw, svc,
                  nextPid, clock, ret, verdict, steps, sess, other >>

\* verify_service_health, first check: systemctl is-active
ProbeActive ==
  /\ pc = "r_health"
  /\ verdict' = CheckActive(svc)
  /\ Step("is-active")
  /\ pc' = "r_h_active"
  /\ Cont
  /\ UNCHANGED << mem, stateFile, fs, procs, httpThread, fw, svc, ret >>

\* a verifier that looks at the port whatever is-active said
ProbePort_IgnoresVerdict ==
  /\ pc = "r_h_active"
  /\ \E bound \in BOOLEAN :
       verdict' = IF bound THEN CheckListening(svc, procs) ELSE procs # {}
  /\ Step("port")
  /\ pc' = "r_h_port"
  /\ Cont
  /\ UNCHANGED << mem, stateFile, fs, procs, httpThread, fw, svc, ret >>

\* second check, after sleep(5): netstat -tlnp | grep :8080; `bound` is
\* whether the service has bound its port by then
ProbePort ==
  /\ pc = "r_h_active" /\ verdict
  /\ \E bound \in BOOLEAN :
       verdict' = IF bound THEN CheckListening(svc, procs) ELSE procs # {}
  /\ Step("port")
  /\ pc' = "r_h_port"
  /\ Cont
  /\ UNCHANGED << mem, stateFile, fs, procs, httpThread, fw, svc, ret >>

\* third check: urlopen within 10 s; `answers` is whether the service
\* answers 200 in time
ProbeHttp ==
  /\ pc = "r_h_port" /\ verdict
  /\ \E answers \in BOOLEAN : verdict' = (answers /\ CheckHttp(svc))
  /\ Step("http")
  /\ pc' = "r_h_http"
  /\ Cont
  /\ UNCHANGED << mem, stateFile, fs, procs, httpThread, fw, svc, ret >>

\* the `return False` after a failed check, the `return True` after the
\* third, and full_revert's branch on the verdict
HealthReturn ==
  /\ pc \in {"r_h_active", "r_h_port", "r_h_http"}
  /\ ~verdict \/ pc = "r_h_http"
  /\ IF verdict
       THEN /\ pc' = "r_clear"
            /\ Cont
            /\ UNCHANGED << mem, httpThread, ret, verdict, steps >>
       ELSE Finish("False") /\ Last
  /\ UNCHANGED << stateFile, fs, procs, fw, svc >>

NextDetail ==
  \/ \E id \in DetailScenarios : Inject(id)
  \/ CreateBackup
  \/ SaveOpen
  \/ BackupSaveDump
  \/ GenStop
  \/ Scenario1
  \/ Scenario5
  \/ Scenario6Rule
  \/ GenStart
  \/ GenSaveDump
  \/ Crash
  \/ FullRevert
  \/ RevStop
  \/ RevKill
  \/ RevIptables
  \/ RevService
  \/ RevFiles
  \/ RevPerms
  \/ RevCleanup
  \/ RevStart
  \/ ProbeActive
  \/ ProbePort
  \/ ProbeHttp
  \/ HealthReturn
  \/ RevClear
  \/ \E flag \in Flags : Granular(flag)
  \/ GenStatus
  \/ RevStatus

SpecDetail == InitDetail /\ [][NextDetail]_vars

\* ================================================ two controller processes
\* A third specification runs two invocations at a time.  Nothing in either
\* script takes a lock on the state file or looks for another instance, so
\* the operating system may interleave the two processes between any two of
\* their steps.  The variables pc .. pre describe the process that is on the
\* processor, `other` the one that waits; both act on the same files, state
\* file, firewall and service.  The scenarios injected are those on the
\* executable's permissions and on the configuration file.
PairScenarios == {2, 5}

Running ==
  [ pc |-> pc, cmd |-> cmd, mem |-> mem, ret |-> ret, verdict |-> verdict,
    steps |-> steps, httpThread |-> httpThread, pre |-> pre ]

\* the scheduler takes the running process off the processor and resumes the
\* waiting one (a process that has not been started yet waits at "idle")
Switch ==
  /\ Running # other
  /\ other' = Running
  /\ pc' = other.pc
  /\ cmd' = other.cmd
  /\ mem' = other.mem
  /\ ret' = other.ret
  /\ verdict' = other.verdict
  /\ steps' = other.steps
  /\ httpThread' = other.httpThread
  /\ pre' = other.pre
  /\ UNCHANGED << stateFile, fs, procs, fw, svc, nextPid, clock, result, ncmds,
                  hist, sess >>

NextPair ==
  \/ \E id \in PairScenarios : Inject(id)
  \/ CreateBackup
  \/ SaveOpen
  \/ BackupSaveDump
  \/ GenStop
  \/ Scenario2
  \/ Scenario5
  \/ GenStart
  \/ GenSaveDump
  \/ FullRevert
  \/ RevStop
  \/ RevKill
  \/ RevIptables
  \/ RevService
  \/ RevFiles
  \/ RevPerms
  \/ RevCleanup
  \/ RevStart
  \/ RevHealth
  \/ RevClear
  \/ Switch

SpecPair == Init /\ [][NextPair]_vars

\* ===================================================== recovery, retried
\* A fourth specification for what repeated recovery achieves: one inject on
\* the untouched target, then `crash_reverter.py --full` again and again
\* until one of them returns True.  The number of retries is not limited.
OneInject(id) == ncmds = 0 /\ Inject(id)

\* main + __init__ + load_state of one more `crash_reverter.py --full`
Retry ==
  /\ pc = "idle" /\ clock = 1
  /\ ~(hist # <<>> /\ hist[Len(hist)].op = "full" /\ hist[Len(hist)].result = "True")
  /\ cmd' = [op |-> "full", id |-> 0, fresh |-> FALSE]
  /\ pre' = stateFile
  /\ mem' = RevLoad(stateFile)
  /\ steps' = <<>>
  /\ result' = "running"
  /\ ret' = FALSE
  /\ pc' = "r_stop"
  /\ UNCHANGED << stateFile, fs, procs, httpThread, fw, svc, nextPid, clock,
                  verdict, ncmds, hist, sess, other >>

NextRecovery ==
  \/ \E id \in 1..8 : OneInject(id)
  \/ CreateBackup
  \/ SaveOpen
  \/ BackupSaveDump
  \/ GenStop
  \/ Scenario1
  \/ Scenario2
  \/ Scenario3
  \/ Scenario47
  \/ Scenario5
  \/ Scenario6Rule
  \/ Scenario8
  \/ GenStart
  \/ GenSaveDump
  \/ Retry
  \/ RevStop
  \/ RevKill
  \/ RevIptables
  \/ RevService
  \/ RevFiles
  \/ RevPerms
  \/ RevCleanup
  \/ RevStart
  \/ RevHealth
  \/ RevClear

\* The operator keeps retrying and every process that was started runs on
\* (both scripts are straight-line code with bounded sleeps and timeouts);
\* a copy or move that fails does not fail on every retry.
FairRecovery ==
  /\ WF_vars(Retry)
  /\ WF_vars(RevStop) /\ WF_vars(RevKill) /\ WF_vars(RevIptables)
  /\ SF_vars(RevService /\ pc' = "r_files")
  /\ SF_vars(RevFiles /\ pc' = "r_perms")
  /\ WF_vars(RevPerms) /\ WF_vars(RevCleanup) /\ WF_vars(RevStart)
  /\ WF_vars(RevHealth) /\ WF_vars(RevClear)

SpecRecovery == Init /\ [][NextRecovery]_vars /\ FairRecovery


\* ==================================================================== claims
LastIs(op) == pc = "idle" /\ hist # <<>> /\ hist[Len(hist)].op = op
Returned(op, r) == LastIs(op) /\ hist[Len(hist)].result = r
\* the last two commands were an inject that applied its scenario to a
\* pristine target, then a revert --full that ran to its return
InjectThenFull ==
  /\ pc = "idle" /\ Len(hist) = 2
  /\ hist[1].op = "inject" /\ hist[1].fresh /\ hist[1].result = "True"
  /\ hist[2].op = "full"

\* C1: for every scenario id, inject(id) from a state without session followed
\* at once by revert --full leaves executable, permissions, service definition
\* and configuration file as they were before the injection (absent files
\* absent again), and status reports no active session.
C1_InjectRevertRoundTrip ==
  InjectThenFull =>
    /\ \A p \in TargetPaths : fs[p] = sess.fs[p]
    /\ ~ShowStatus(stateFile).active

\* C2: the state file goes away only in the step that follows a positive
\* verdict of the Health Verifier on a service that is up.
C2_ClearedOnlyAfterHealthy ==
  [][ (stateFile.kind # "absent" /\ stateFile'.kind = "absent")
        => (pc = "r_clear" /\ verdict /\ svc = "active") ]_vars

\* C2 (amended): the state file is deleted only by revert --full in the step
\* that follows a positive verdict on a service that is up, or by the
\* operator's explicit revert --clear-state.
C2_ClearedByHealthyOrOperator ==
  [][ (stateFile.kind # "absent" /\ stateFile'.kind = "absent")
        => \/ pc = "r_clear" /\ verdict /\ svc = "active"
           \/ pc = "idle" /\ result' = "State cleared" ]_vars

C2_Witness ==
  /\ Returned("full", "True")
  /\ pre.kind = "json" /\ pre.st.active_scenario # 0
  /\ stateFile = NoFile

\* C3: a revert --full that ends on a negative health verdict returns failure
\* and leaves the persisted Session State exactly as it was before the call.
C3_FailedRevertKeepsState ==
  Returned("full", "False") => stateFile = pre

C3_Witness ==
  /\ Returned("full", "False")
  /\ stateFile.kind = "json"
  /\ stateFile.st.files_modified # <<>>

SessionActive(sf) == sf.kind = "json" /\ sf.st.active_scenario # 0
EnvUnchanged ==
  /\ fs' = fs /\ fw' = fw /\ procs' = procs /\ svc' = svc
  /\ httpThread' = httpThread

\* C4: an inject that finds an active scenario in the persisted Session State
\* is refused: no scenario step runs, nothing in the environment changes and
\* the state file stays as it is.
C4_ConcurrentInjectRefused ==
  [][ (cmd.op = "inject" /\ SessionActive(pre))
        => (EnvUnchanged /\ stateFile' = stateFile) ]_vars

BackupOriginal(p) ==
  Exists(fs, BackupPath(p)) => fs[BackupPath(p)] = sess.fs[p]

\* C5: every file in the Backup Store has the content the file had before
\* the first mutation of the session.
C5_BackupHoldsOriginals ==
  sess.open => \A p \in TargetPaths : BackupOriginal(p)

\* firewall rules the running scenario 6 has added so far
AddedRules ==
  SubSeq(mem.iptables_rules, Len(GenLoad(pre).iptables_rules) + 1,
         Len(mem.iptables_rules))
Persisted(r) ==
  stateFile.kind = "json" /\ r \in Range(stateFile.st.iptables_rules)

\* C6: wherever run_scenario stands, every mutation but the most recent one
\* is already in the state file (here: the firewall rules of scenario 6).
C6_LedgerWrittenPerStep ==
  (cmd.op = "inject" /\ cmd.id = 6 /\ pc \in {"g_rule2", "g_rule3", "g_start"})
    => \A i \in 1..(Len(AddedRules) - 1) : Persisted(AddedRules[i])

\* what the ledger on disk says about the environment's deviations
Recorded(e) == stateFile.kind = "json" /\ e \in Range(stateFile.st.files_modified)
LedgerCovers ==
  /\ Exists(fs, large_file) => Recorded(PlainEntry(large_file))
  /\ (Exists(fs, jar_path) /\ fs[jar_path].m # sess.fs[jar_path].m)
       => Recorded(PlainEntry(jar_path))
  /\ Exists(fs, moved_path) => Recorded(MovedEntry(jar_path, moved_path))
  /\ fs[service_file] # sess.fs[service_file] => Recorded(PlainEntry(service_file))
  /\ fs[props_file] # sess.fs[props_file] => Recorded(PlainEntry(props_file))
  /\ \A pid \in procs : stateFile.kind = "json" /\
        <<"nc", pid>> \in Range(stateFile.st.processes_started)

\* C7: when the scenario procedure of the session's first inject fails after
\* some of its sub-steps, run_scenario returns failure with every sub-step
\* performed so far recorded in the state file.
C7_FailureLeavesLedgerComplete ==
  (Returned("inject", "False") /\ hist[Len(hist)].fresh) => LedgerCovers

RevertOrder ==
  << "stop", "kill", "iptables", "service", "files", "permissions", "cleanup",
     "start", "health" >>

\* C8: revert --full issues stop, kill, network rules, service definition,
\* files, permissions, filler files, start, health check in this order; the
\* service is stopped, and not started again, while files and permissions
\* are restored.
C8_RevertOrder ==
  cmd.op = "full" =>
    /\ Len(steps) <= Len(RevertOrder)
    /\ steps = SubSeq(RevertOrder, 1, Len(steps))
    /\ pc \in {"r_service", "r_files", "r_perms", "r_cleanup", "r_start"}
         => svc = "inactive"

C8_Witness ==
  /\ cmd.op = "full" /\ steps = RevertOrder
  /\ mem.files_modified # <<>>

\* C9: in revert --full a failing step or ledger entry never keeps the later
\* steps from being attempted: unless the process is killed, the service
\* definition step is followed by the file step and the file step by the
\* permission step.
C9_RevertIsBestEffort ==
  [][ /\ (pc = "r_service" /\ result' # "crashed") => pc' = "r_files"
      /\ (pc = "r_files" /\ result' # "crashed") => pc' = "r_perms" ]_vars

\* the running command is a revert --full that directly follows a successful one
SecondRevert ==
  /\ cmd.op = "full"
  /\ hist # <<>> /\ hist[Len(hist)].op = "full" /\ hist[Len(hist)].result = "True"

\* C10: a revert --full that directly follows a successful one changes neither
\* files, firewall, processes nor the (absent) state file, ends with the
\* service up again and returns success.
C10_RevertIdempotent ==
  [][ SecondRevert =>
        /\ fs' = fs /\ fw' = fw /\ procs' = procs
        /\ stateFile = NoFile /\ stateFile' = NoFile
        /\ pc' = "idle" => (result' = "crashed" \/ (result' = "True" /\ svc' = "active"))
    ]_vars

C10_Witness ==
  /\ pc = "idle" /\ Len(hist) = 2 /\ clock > 0
  /\ hist[1].op = "full" /\ hist[1].result = "True"
  /\ hist[2].op = "full" /\ hist[2].result = "True"

\* files a scenario creates when they are missing
CreatedPaths == {large_file, props_file}

\* C11: a file that a scenario created and that did not exist before the
\* injection (the filler file, a configuration file created by scenario 5)
\* is absent after revert --full.
C11_CreatedFilesDeleted ==
  (InjectThenFull /\ hist[2].result = "True")
    => \A p \in CreatedPaths : ~Exists(sess.fs, p) => ~Exists(fs, p)

\* the ledger the last / running revert --full loaded
LoadedLedger == RevLoad(pre).files_modified
\* the running revert --full is past restore_files, or the command returned
FilesStepDone ==
  \/ cmd.op = "full" /\ pc \in {"r_perms", "r_cleanup", "r_start", "r_health", "r_clear"}
  \/ LastIs("full")

\* C12: once revert --full has restored the files, for every record
\* moved:<from>:<to> of the ledger the path <from> exists and the path <to>
\* does not, whatever other records the ledger holds and however often the
\* revert has run.
C12_MovedRestored ==
  FilesStepDone =>
    \A i \in 1..Len(LoadedLedger) :
      StartsWithMoved(LoadedLedger[i]) =>
        /\ Exists(fs, SplitOriginal(LoadedLedger[i]))
        /\ ~Exists(fs, SplitMoved(LoadedLedger[i]))

C12_Witness ==
  /\ Returned("full", "True")
  /\ MovedEntry(jar_path, moved_path) \in Range(LoadedLedger)
  /\ PlainEntry(jar_path) \in Range(LoadedLedger)
  /\ Exists(fs, jar_path) /\ ~Exists(fs, moved_path)

\* the permission ledger the last / running revert --full loaded
LoadedPermissions == RevLoad(pre).original_permissions
\* the running revert --full is past restore_permissions, or the command returned
PermsStepDone ==
  \/ cmd.op = "full" /\ pc \in {"r_cleanup", "r_start", "r_health", "r_clear"}
  \/ LastIs("full")

\* C13: inject(2) on a jar with mode 755 sets its mode to 644 and persists
\* exactly one permission entry, jar path -> "755"; a following revert --full
\* gives the jar mode 755 again, and in general every recorded path has the
\* mode recorded for it once revert --full has restored the permissions.
C13_PermissionRoundTrip ==
  /\ ( /\ Returned("inject", "True")
       /\ hist[Len(hist)].id = 2 /\ hist[Len(hist)].fresh
       /\ sess.fs[jar_path].m = IntOct(<<7, 5, 5>>) )
       => /\ fs[jar_path].m = Mode644
          /\ stateFile.kind = "json"
          /\ stateFile.st.original_permissions = << <<jar_path, <<7, 5, 5>>>> >>
  /\ (InjectThenFull /\ hist[1].id = 2 /\ sess.fs[jar_path].m = IntOct(<<7, 5, 5>>))
       => fs[jar_path].m = IntOct(<<7, 5, 5>>)
  /\ PermsStepDone =>
       \A i \in 1..Len(LoadedPermissions) :
         Exists(fs, LoadedPermissions[i][1])
           => fs[LoadedPermissions[i][1]].m = IntOct(LoadedPermissions[i][2])

C13_Witness ==
  /\ InjectThenFull /\ hist[1].id = 2 /\ hist[2].result = "True"
  /\ sess.fs[jar_path].m = IntOct(<<7, 5, 5>>)
  /\ fs[jar_path].m = IntOct(<<7, 5, 5>>)
  /\ LoadedPermissions = << <<jar_path, <<7, 5, 5>>>> >>

\* the text of a file, nothing for a missing one
Content(f, p) == IF Exists(f, p) THEN f[p].c ELSE <<>>

\* C14: after inject(5) has appended its block to the configuration file,
\* a successful revert --full leaves a configuration file whose lines are
\* the lines from before the injection, with or without a backup of the
\* file in the Backup Store.
C14_ConfigLinesRestored ==
  (InjectThenFull /\ hist[1].id = 5 /\ hist[2].result = "True")
    => ReadLines(Content(fs, props_file), <<>>)
         = ReadLines(Content(sess.fs, props_file), <<>>)

\* C15: whenever no command is running -- also after a crash inside
\* save_state -- the state file is absent or holds a complete record, never
\* an empty or cut-off one.
C15_SaveStateAtomic ==
  pc = "idle" => stateFile.kind # "truncated"

\* the pids the persisted Session State records as spawned
RecordedPids ==
  IF stateFile.kind = "json"
    THEN { stateFile.st.processes_started[i][2] :
             i \in 1..Len(stateFile.st.processes_started) }
    ELSE {}

\* C16: after inject(1) on a pristine target has returned, whichever of the
\* server thread and nc got the port, a listener is bound to port 8080 and
\* its pid is in processes_started of the persisted Session State.
C16_ListenerOutlivesController ==
  ( /\ Returned("inject", "True")
    /\ hist[Len(hist)].id = 1 /\ hist[Len(hist)].fresh )
    => \E pid \in procs : pid \in RecordedPids

\* the file scenario id looks for
TargetOf(id) ==
  CASE id \in {2, 3} -> jar_path
    [] id \in {4, 7} -> service_file
    [] OTHER -> props_file

\* C17: an inject of scenario 2, 3, 4, 5 or 7 on a pristine target whose
\* target file is missing, once it has run to its closing save_state and
\* returned, has returned the skip result and changed nothing: the
\* target files are as before, the firewall is empty, the service is still
\* up and the persisted Session State holds no mutation record.
C17_AbsentTargetIsNoOp ==
  ( /\ LastIs("inject")
    /\ hist[Len(hist)].id \in {2, 3, 4, 5, 7} /\ hist[Len(hist)].fresh
    /\ ~Exists(sess.fs, TargetOf(hist[Len(hist)].id))
    /\ SessionActive(stateFile) )
    => /\ hist[Len(hist)].result = "False"
       /\ \A p \in TargetPaths : fs[p] = sess.fs[p]
       /\ fw = <<>>
       /\ svc = "active"
       /\ stateFile.kind = "json" =>
            /\ stateFile.st.files_modified = <<>>
            /\ stateFile.st.original_permissions = <<>>
            /\ stateFile.st.iptables_rules = <<>>
            /\ ~stateFile.st.service_modified

\* the session so far: successful injects only, the first on a pristine target
OnlyInjects ==
  /\ pc = "idle" /\ hist # <<>> /\ hist[1].fresh
  /\ \A i \in 1..Len(hist) : hist[i].op = "inject" /\ hist[i].result = "True"

\* C18: after any sequence of successful injects within one session, every
\* entry of original_permissions in the persisted Session State holds the
\* permission bits its path had when the session began.
C18_PermissionsAreOriginal ==
  (OnlyInjects /\ sess.open /\ stateFile.kind = "json") =>
    \A i \in 1..Len(stateFile.st.original_permissions) :
      LET e == stateFile.st.original_permissions[i] IN
      Exists(sess.fs, e[1]) => e[2] = OctLast3(StMode(sess.fs[e[1]].m))

\* every command so far was an inject: nothing has been reverted yet
NothingReverted == ncmds = clock

RECURSIVE IsSubsequence(_, _)
\* a is b with some elements left out
IsSubsequence(a, b) ==
  IF a = <<>> THEN TRUE
  ELSE IF b = <<>> THEN FALSE
  ELSE IF Head(a) = Head(b) THEN IsSubsequence(Tail(a), Tail(b))
  ELSE IsSubsequence(a, Tail(b))

\* the jar, where it is now, carries the mode scenario 2 sets
JarChmodApplied ==
  IF Exists(fs, jar_path) THEN fs[jar_path].m = Mode644
  ELSE Exists(fs, moved_path) /\ fs[moved_path].m = Mode644

\* the mutation a files_modified entry stands for is in the filesystem
FileEntryApplied(e) ==
  IF StartsWithMoved(e)
    THEN ~Exists(fs, SplitOriginal(e)) /\ Exists(fs, SplitMoved(e))
  ELSE CASE e[1] = jar_path -> JarChmodApplied
         [] e[1] = service_file ->
              Exists(fs, service_file) /\ fs[service_file].c # OrigUnit
         [] e[1] = props_file ->
              Exists(fs, props_file) /\ HasInvalidConfig(fs[props_file].c)
         [] e[1] = large_file -> Exists(fs, large_file)
         [] OTHER -> FALSE

\* C19: as long as nothing has been reverted, in every state -- in the middle
\* of a command, after a crash, after a failed step -- every entry of
\* files_modified, original_permissions and iptables_rules in the state file
\* stands for a mutation that is in the filesystem or the firewall.
C19_LedgerNeverOverComplete ==
  (NothingReverted /\ stateFile.kind = "json") =>
    LET st == stateFile.st IN
    /\ \A i \in 1..Len(st.files_modified) : FileEntryApplied(st.files_modified[i])
    /\ \A i \in 1..Len(st.original_permissions) :
         st.original_permissions[i][1] = jar_path /\ JarChmodApplied
    /\ IsSubsequence([i \in 1..Len(st.iptables_rules) |-> st.iptables_rules[i][2]], fw)
    /\ st.service_modified => fs[service_file].c # OrigUnit

C19_Witness ==
  /\ NothingReverted /\ pc = "idle" /\ result = "crashed"
  /\ stateFile.kind = "json" /\ Len(stateFile.st.iptables_rules) = 2
  /\ fs[jar_path].m = Mode644 /\ sess.fs[jar_path].m # Mode644

IsPrefix(a, b) == Len(a) <= Len(b) /\ a = SubSeq(b, 1, Len(a))
Keys(d) == { d[i][1] : i \in 1..Len(d) }
\* record b holds everything record a holds
Grows(a, b) ==
  /\ IsPrefix(a.processes_started, b.processes_started)
  /\ IsPrefix(a.files_modified, b.files_modified)
  /\ IsPrefix(a.iptables_rules, b.iptables_rules)
  /\ Keys(a.original_permissions) \subseteq Keys(b.original_permissions)

\* C20: an inject or revert --full that found an active session on disk and has
\* ended (returned or was killed) leaves a Session State that holds all of
\* the earlier record, or, after a verified-successful revert --full, none.
C20_StateOnlyGrows ==
  (pc = "idle" /\ result \in {"True", "False", "crashed"} /\ SessionActive(pre))
    => \/ stateFile.kind = "json" /\ Grows(pre.st, stateFile.st)
       \/ Returned("full", "True") /\ stateFile = NoFile

\* C23: when the loaded Session State says backup_created, create_backup
\* returns at once: Backup Store and state file stay as they are and
\* run_scenario goes on to stop_service.
C23_CaptureOnceIdempotent ==
  [][ (pc = "g_backup" /\ mem.backup_created)
        => /\ fs' = fs /\ stateFile' = stateFile
           /\ pc' = "g_stop" \/ result' = "crashed" ]_vars

C23_Witness ==
  /\ cmd.op = "inject" /\ pc = "g_stop" /\ steps = <<>>
  /\ pre.kind = "json" /\ pre.st.backup_created /\ stateFile = pre
  /\ Exists(fs, jar_path) /\ Exists(fs, BackupPath(jar_path))
  /\ fs[jar_path] # fs[BackupPath(jar_path)]

\* C24: the exit status of an inject whose scenario procedure returned is 0
\* exactly when the scenario was applied (returned True), non-zero when it
\* reported a skip or a failure.
C24_ExitCodeReflectsOutcome ==
  (LastIs("inject") /\ SessionActive(stateFile) /\ stateFile.st.timestamp = clock)
    => (GenExitCode(hist[Len(hist)].result) = 0 <=> hist[Len(hist)].result = "True")

\* the steps of an inject after the optional backup capture
ScenarioSteps == IF steps # <<>> /\ steps[1] = "backup" THEN Tail(steps) ELSE steps

\* C25: every inject issues its steps in the order backup capture (first, and
\* always when the loaded state has no backup yet), service stop, the
\* scenario's mutations, start request; a skip comes without any mutation,
\* and a scenario that returns True has issued the start request last.
C25_InjectOrder ==
  cmd.op = "inject" =>
    /\ (steps # <<>> /\ ~GenLoad(pre).backup_created) => steps[1] = "backup"
    /\ ScenarioSteps # <<>> => ScenarioSteps[1] = "stop"
    /\ \A i \in 2..Len(ScenarioSteps) :
         \/ ScenarioSteps[i] = "mutate"
         \/ i = Len(ScenarioSteps) /\ ScenarioSteps[i] = "start"
         \/ i = 2 /\ Len(ScenarioSteps) = 2 /\ ScenarioSteps[i] = "skip"
    /\ (pc \in {"g_save_open", "g_save_dump"} /\ ret)
         => ScenarioSteps[Len(ScenarioSteps)] = "start"

C25_Witness ==
  /\ cmd.op = "inject" /\ cmd.id = 6 /\ pc = "g_save_open" /\ ret
  /\ steps = << "backup", "stop", "mutate", "mutate", "mutate", "start" >>

\* the Session State with another scenario recorded as the active one
Relabel(st, a) == [st EXCEPT !.active_scenario = a, !.timestamp = 0]

\* C26: what a step of revert --full does to processes, firewall and files is
\* what the same step does for the same ledger with any other scenario id and
\* timestamp recorded as active.
C26_RevertIgnoresActiveScenario ==
  [][ (cmd.op = "full" /\ result' # "crashed") =>
        \A a \in 0..8 :
          LET st == Relabel(mem, a) IN
          /\ pc = "r_kill" => procs' = KillProcesses(procs, st)
          /\ pc = "r_ipt" => fw' = RemoveIptablesRules(fw, st)
          /\ pc = "r_service" =>
               \E raises \in BOOLEAN :
                 /\ fs' = RestoreServiceFile(fs, st, raises).fs
                 /\ (pc' = "r_files") = ~RestoreServiceFile(fs, st, raises).raised
          /\ pc = "r_files" =>
               \E failAt \in 0..Len(st.files_modified) :
                 /\ fs' = RestoreFiles(fs, st, failAt).fs
                 /\ (pc' = "r_perms") = ~RestoreFiles(fs, st, failAt).raised
          /\ pc = "r_perms" => fs' = RestorePermissions(fs, st.original_permissions)
    ]_vars

C26_Witness ==
  /\ cmd.op = "full" /\ pc = "r_perms"
  /\ mem.active_scenario = 6 /\ mem.files_modified # <<>>
  /\ fs[jar_path] = sess.fs[jar_path]

\* the pids of the recorded processes, in insertion order
RecordedOrder(started) == [i \in 1..Len(started) |-> started[i][2]]
\* the pids a signal log sends sig to, in order
RECURSIVE PidsOf(_, _)
PidsOf(log, sig) ==
  IF log = <<>> THEN <<>>
  ELSE (IF Head(log).sig = sig THEN << Head(log).pid >> ELSE <<>>)
       \o PidsOf(Tail(log), sig)

\* C27: once kill_processes of revert --full has run, no listener is left on
\* port 8080, recorded or not; its loop sends SIGTERM to every recorded pid
\* in insertion order, dead ones included, and SIGKILL to a pid only right
\* after that pid's SIGTERM.
C27_KillStep ==
  /\ (cmd.op = "full" /\ pc \in {"r_ipt", "r_service", "r_files", "r_perms",
                                 "r_cleanup", "r_start", "r_health", "r_clear"})
       => procs = {}
  /\ (cmd.op = "full" /\ pc = "r_kill") =>
       LET log == KillSignals(procs, mem.processes_started) IN
       /\ PidsOf(log, "SIGTERM") = RecordedOrder(mem.processes_started)
       /\ \A i \in 1..Len(log) :
            log[i].sig = "SIGKILL" =>
              i > 1 /\ log[i - 1] = [sig |-> "SIGTERM", pid |-> log[i].pid]
       /\ KillRecorded(procs, mem.processes_started)
            = procs \ Range(PidsOf(log, "SIGTERM"))

C27_Witness ==
  /\ cmd.op = "full" /\ pc = "r_ipt" /\ procs = {}
  /\ Len(mem.processes_started) = 2

\* the results of the individual operations other than --clear-state
OtherFlagResults ==
  {"done", "Traceback", "Service health check passed", "Service health check failed"}

\* C28: an individual revert operation other than --clear-state leaves the
\* state file as it found it.
C28_GranularKeepsState ==
  [][ (pc = "idle" /\ pc' = "idle" /\ result' \in OtherFlagResults)
        => stateFile' = stateFile ]_vars

C28_Witness ==
  /\ pc = "idle" /\ result = "done" /\ ncmds = 2
  /\ stateFile = pre /\ stateFile.kind = "json"
  /\ PlainEntry(jar_path) \in Range(stateFile.st.files_modified)
  /\ fs[jar_path] = sess.fs[jar_path]

\* the file steps of full_revert, run without any I/O failure
ReverseFiles(f, st) ==
  CleanupTempFiles(
    RestorePermissions(
      RestoreFiles(RestoreServiceFile(f, st, FALSE).fs, st, 0).fs,
      st.original_permissions))
\* a revert --full has run its reversal steps and the Session State is retained
ReversedOnce ==
  \/ cmd.op = "full" /\ pc \in {"r_start", "r_health", "r_clear"}
  \/ Returned("full", "False")

\* C29: once revert --full has run its reversal steps, running them again
\* over the same Session State leaves files, permissions, service definition
\* and firewall as they are and fails on no entry.
C29_ReversalIdempotent ==
  ReversedOnce =>
    LET st == RevLoad(pre) IN
    /\ ~RestoreServiceFile(fs, st, FALSE).raised
    /\ ~RestoreFiles(RestoreServiceFile(fs, st, FALSE).fs, st, 0).raised
    /\ ReverseFiles(fs, st) = fs
    /\ RemoveIptablesRules(fw, st) = fw

C29_Witness ==
  /\ Returned("full", "False") /\ stateFile = pre
  /\ stateFile.kind = "json"
  /\ stateFile.st.files_modified # <<>>
  /\ stateFile.st.original_permissions # <<>>

\* what the two --status commands can print, and their no-session lines
StatusOutputs ==
  {"No active scenarios", "Current state", "JSONDecodeError",
   "Current Crash Generator State", "No crash scenarios are currently active"}
NoSessionOutputs ==
  {"No active scenarios", "No crash scenarios are currently active"}

\* C21: a --status command, whatever the state file holds, ends without an
\* error, leaves state file and environment as they are, prints the record
\* when the file holds one and the no-session line when there is no file.
C21_StatusTotalReadOnly ==
  [][ (pc = "idle" /\ pc' = "idle" /\ result' \in StatusOutputs) =>
        /\ stateFile' = stateFile /\ EnvUnchanged
        /\ result' # "JSONDecodeError"
        /\ stateFile.kind = "json" => result' \notin NoSessionOutputs
        /\ stateFile.kind = "absent" => result' \in NoSessionOutputs ]_vars

\* the checks a running verify_service_health has performed so far
Probes == SelectSeq(steps, LAMBDA x : x \in {"is-active", "port", "http"})
ProbeOrder == << "is-active", "port", "http" >>

\* C22: verify_service_health performs its checks in the order is-active,
\* port, HTTP; a check is performed only when the one before it passed, and
\* the verdict is healthy exactly when all three were performed and passed.
C22_VerifierShortCircuits ==
  cmd.op = "full" =>
    /\ Probes = SubSeq(ProbeOrder, 1, Len(Probes))
    /\ (pc \in {"r_h_port", "r_h_http"}) =>
         (Len(Probes) = (IF pc = "r_h_port" THEN 2 ELSE 3) /\ CheckActive(svc))
    /\ pc = "r_h_http" => CheckListening(svc, procs)
    /\ pc = "r_clear" => (verdict /\ Probes = ProbeOrder /\ CheckHttp(svc))
    /\ (pc = "r_h_http" /\ verdict) => VerifyServiceHealth(svc, procs)

C22_Witness ==
  /\ cmd.op = "full" /\ pc = "r_h_port" /\ ~verdict
  /\ Probes = << "is-active", "port" >>

\* the rule specifications the ledger on disk records
RecordedSpecs ==
  { RevLoad(stateFile).iptables_rules[i][2] :
      i \in 1..Len(RevLoad(stateFile).iptables_rules) }

\* C30: a run of remove_iptables_rules (in revert --full or on its own)
\* leaves every rule of the OUTPUT chain in place that the ledger does not
\* record.
C30_UnrecordedRulesKept ==
  [][ (fw' # fw /\ (pc = "r_ipt" \/ (pc = "idle" /\ pc' = "idle")))
        => \A i \in 1..Len(fw) :
             fw[i] \notin RecordedSpecs => fw[i] \in Range(fw') ]_vars

\* two invocations have been started, both have run to their return, and
\* both returned success
BothReturned ==
  /\ pc = "idle" /\ other.pc = "idle"
  /\ ncmds = 2 /\ Len(hist) = 2
  /\ \A i \in 1..2 : hist[i].result = "True"

\* mutations that are in effect: the executable without its execute bit, the
\* configuration file with the invalid lines
JarRevoked ==
  /\ Exists(fs, jar_path) /\ fs[jar_path].m = Mode644
  /\ sess.fs[jar_path].m # Mode644
ConfigCorrupted == Exists(fs, props_file) /\ HasInvalidConfig(fs[props_file].c)

\* C31: when two invocations (two injects, or an inject and a revert --full)
\* have run at the same time and both have returned success, every mutation
\* that is still in effect is in the state file, whatever the interleaving.
C31_NoMutationLostUnderInterleaving ==
  BothReturned =>
    /\ JarRevoked =>
          /\ Recorded(PlainEntry(jar_path))
          /\ jar_path \in Keys(stateFile.st.original_permissions)
    /\ ConfigCorrupted => Recorded(PlainEntry(props_file))

\* the one inject has returned
InjectReturned == pc = "idle" /\ clock = 1 /\ LastIs("inject")
\* a revert --full has passed the health check and cleared the state file
SessionClosed == Returned("full", "True") /\ stateFile = NoFile

\* C32: from every state in which one inject(id) has returned, repeated
\* revert --full leads to a revert whose health check passes and which
\* clears the state file.
C32_RecoveryEventuallyCloses == InjectReturned ~> SessionClosed

\* the same, for an inject that reached the save_state at the end of
\* run_scenario
SavedInjectRecovers ==
  (InjectReturned /\ SessionActive(stateFile)) ~> SessionClosed

====
